---------------------------- MODULE Spec2Model ----------------------------
(***************************************************************************)
(* A model of apt-ostree's layout transformation (apt_ostree/bootstrap.py):*)
(* Bootstrap.create_ostree and the stages it runs on a root tree           *)
(* (setup_boot, create_tmpfile_dir, convert_to_ostree with                 *)
(* sanitize_usr_symlinks and get_toplevel), of the hand-over to the commit *)
(* collaborator by Bootstrap.create_rootfs and Compose.commit, and of      *)
(* utils.remove_component_from_config.                                     *)
(*                                                                         *)
(* Representation.  A file name is a TLA+ string.  A path is the sequence  *)
(* of its components: the tree-relative path usr/lib/modules is            *)
(* <<"usr", "lib", "modules">> and the absolute path string                *)
(* "/var/lib/foo/data" of the package index is <<"var", "lib", "foo",      *)
(* "data">>.  A symlink target string is a record [abs, comps]:            *)
(* "../var/usrlocal" is [abs |-> FALSE, comps |-> <<"..", "var",           *)
(* "usrlocal">>].  Where the code looks at the characters of a name        *)
(* (startswith, split) the model does so on the name's spelling, Chars.    *)
(***************************************************************************)
EXTENDS Integers, Sequences, FiniteSets, TLC

(***************************************************************************)
(* Bounds of the model.                                                    *)
(***************************************************************************)
\* how many deviations from the reference input tree one input may combine
MaxFeatures == 2
\* how many times create_ostree is invoked on the same tree
MaxRuns == 2
\* how many symbolic links one path resolution follows before giving up
MaxFollow == 3
\* how many lines the file conf/distributions has at most
MaxLines == 3

(***************************************************************************)
(* Strings.                                                                *)
(***************************************************************************)
\* The spelling of the names whose characters the code inspects.
Chars(n) ==
    CASE n = "vmlinuz-6.1.0-amd64" -> <<"v", "m", "l", "i", "n", "u", "z", "-", "6", ".", "1", ".", "0", "-", "a", "m", "d", "6", "4">>
      [] n = "vmlinuz-5.10" -> <<"v", "m", "l", "i", "n", "u", "z", "-", "5", ".", "1", "0">>
      [] n = "vmlinuz" -> <<"v", "m", "l", "i", "n", "u", "z">>
      [] n = "initrd.img-6.1.0-amd64" -> <<"i", "n", "i", "t", "r", "d", ".", "i", "m", "g", "-", "6", ".", "1", ".", "0", "-", "a", "m", "d", "6", "4">>
      [] n = "initrd.img" -> <<"i", "n", "i", "t", "r", "d", ".", "i", "m", "g">>
      [] n = "System.map-6.1.0-amd64" -> <<"S", "y", "s", "t", "e", "m", ".", "m", "a", "p", "-", "6", ".", "1", ".", "0", "-", "a", "m", "d", "6", "4">>
      [] n = "dtbs" -> <<"d", "t", "b", "s">>
      [] n = "config-6.1.0-amd64" -> <<"c", "o", "n", "f", "i", "g", "-", "6", ".", "1", ".", "0", "-", "a", "m", "d", "6", "4">>
      [] n = "6.1.0-amd64" -> <<"6", ".", "1", ".", "0", "-", "a", "m", "d", "6", "4">>
      [] n = "5.10" -> <<"5", ".", "1", "0">>
      [] n = "var" -> <<"v", "a", "r">>
      [] n = "variant" -> <<"v", "a", "r", "i", "a", "n", "t">>
      [] n = "lib" -> <<"l", "i", "b">>
      [] n = "foo" -> <<"f", "o", "o">>
      [] n = "data" -> <<"d", "a", "t", "a">>
      [] n = "x" -> <<"x">>
      [] n = "systemd" -> <<"s", "y", "s", "t", "e", "m", "d">>
      [] n = "cache" -> <<"c", "a", "c", "h", "e">>

\* The names a kernel version string can spell.
VersionNames == {"6.1.0-amd64", "5.10"}

\* The name spelled by the characters cs.
NameOf(cs) == CHOOSE n \in VersionNames : Chars(n) = cs

\* s.startswith(prefix)
StartsWith(s, prefix) ==
    /\ Len(prefix) <= Len(s)
    /\ SubSeq(s, 1, Len(prefix)) = prefix

\* s.split(sep, 1): the parts of s around its first sep
SplitOnce(s, sep) ==
    IF \E i \in 1..Len(s) : s[i] = sep
    THEN LET i == CHOOSE k \in 1..Len(s) :
                      /\ s[k] = sep
                      /\ \A j \in 1..(k - 1) : s[j] # sep
         IN  <<SubSeq(s, 1, i - 1), SubSeq(s, i + 1, Len(s))>>
    ELSE <<s>>

RECURSIVE PathString(_)
\* The characters of the absolute path string with components p.
PathString(p) ==
    IF p = <<>> THEN <<>>
    ELSE <<"/">> \o Chars(Head(p)) \o PathString(Tail(p))

(***************************************************************************)
(* Paths (os.path).                                                        *)
(***************************************************************************)
IsPrefix(p, q) ==
    /\ Len(p) <= Len(q)
    /\ SubSeq(q, 1, Len(p)) = p

\* os.path.split: the head of a path
Parent(p) == SubSeq(p, 1, Len(p) - 1)

\* os.path.split: the tail of a path
Basename(p) == p[Len(p)]

RECURSIVE NormAcc(_, _)
NormAcc(acc, rest) ==
    IF rest = <<>> THEN acc
    ELSE LET c == Head(rest) IN
         IF c = "." THEN NormAcc(acc, Tail(rest))
         ELSE IF c = ".."
              THEN NormAcc(IF acc = <<>> THEN <<>> ELSE Parent(acc), Tail(rest))
              ELSE NormAcc(Append(acc, c), Tail(rest))

\* os.path.normpath of an absolute path: "." dropped, ".." applied lexically
normpath(p) == NormAcc(<<>>, p)

\* The length of the longest common prefix of two component lists.
CommonLen(p, q) ==
    CHOOSE n \in 0..Len(p) :
        /\ n <= Len(q)
        /\ SubSeq(p, 1, n) = SubSeq(q, 1, n)
        /\ \/ n = Len(p)
           \/ n = Len(q)
           \/ p[n + 1] # q[n + 1]

\* os.path.commonpath([p, q]): componentwise, "." dropped, ".." kept as it is
commonpath(p, q) ==
    LET pp == SelectSeq(p, LAMBDA c : c # ".")
        qq == SelectSeq(q, LAMBDA c : c # ".")
    IN  SubSeq(pp, 1, CommonLen(pp, qq))

\* os.path.relpath(path, start): of the normalised paths; "." when equal
relpath(path, start) ==
    LET pl == normpath(path)
        sl == normpath(start)
        i  == CommonLen(sl, pl)
        rl == [k \in 1..(Len(sl) - i) |-> ".."] \o SubSeq(pl, i + 1, Len(pl))
    IN  IF rl = <<>> THEN <<".">> ELSE rl

RECURSIVE get_toplevel_loop(_, _)
get_toplevel_loop(head, tail) ==
    IF head # <<>>
    THEN get_toplevel_loop(Parent(head), Basename(head))
    ELSE tail

\* Bootstrap.get_toplevel on a relative path
get_toplevel(path) == get_toplevel_loop(Parent(path), Basename(path))

(***************************************************************************)
(* The root tree.  A tree is a function from the tree-relative paths that  *)
(* exist to their nodes; the tree root <<>> is a directory and is not in   *)
(* the domain.  A regular file carries the identity of its inode (the path *)
(* at which the inode was created), so that a hard link shares it and a    *)
(* copy does not, and its lines when the pipeline writes it.  Every node   *)
(* carries its owner and its permission bits (in octal, as a string).      *)
(***************************************************************************)
NoTarget == [abs |-> FALSE, comps |-> <<>>]

\* The identity that runs the pipeline and owns what it creates.
Runner == "root"

\* A directory as os.mkdir creates it.
DirNode ==
    [kind |-> "dir", ino |-> <<>>, target |-> NoTarget, data |-> <<>>,
     owner |-> Runner, mode |-> "755"]

\* A regular file as open(p, "w") creates it.
FileNode(p) ==
    [kind |-> "file", ino |-> p, target |-> NoTarget, data |-> <<>>,
     owner |-> Runner, mode |-> "644"]

\* A symbolic link as os.symlink creates it.
LinkNode(isabs, comps) ==
    [kind |-> "link", ino |-> <<>>,
     target |-> [abs |-> isabs, comps |-> comps], data |-> <<>>,
     owner |-> Runner, mode |-> "777"]

\* os.path.lexists
Exists(f, p) == p = <<>> \/ p \in DOMAIN f

\* lstat: "dir", "file", "link", or "none" when nothing is there
KindOf(f, p) ==
    IF p = <<>> THEN "dir"
    ELSE IF p \in DOMAIN f THEN f[p].kind ELSE "none"

\* The names in directory p (os.listdir).
Listdir(f, p) == {Basename(q) : q \in {r \in DOMAIN f : Len(r) = Len(p) + 1 /\ IsPrefix(p, r)}}

\* The tree at and below p, as a function of the paths relative to p.
Subtree(f, p) ==
    LET below == {q \in DOMAIN f : IsPrefix(p, q)} IN
    [s \in {SubSeq(q, Len(p) + 1, Len(q)) : q \in below} |-> f[p \o s]]

\* f without p and everything below it.
RemoveTree(f, p) ==
    [q \in {r \in DOMAIN f : ~IsPrefix(p, r)} |-> f[q]]

\* f with the subtree t placed at dst.
Graft(f, dst, t) ==
    LET placed == {dst \o s : s \in DOMAIN t} IN
    [q \in DOMAIN f \cup placed |->
        IF q \in placed THEN t[SubSeq(q, Len(dst) + 1, Len(q))] ELSE f[q]]

\* A copy of subtree t made at dst: every regular file is a new inode, and
\* every entry is created by the runner and then given the permission bits
\* of its source (copystat), not its owner.
CopyOf(t, dst) ==
    [s \in DOMAIN t |->
        [t[s] EXCEPT !.ino = IF t[s].kind = "file" THEN dst \o s ELSE @,
                     !.owner = Runner]]

Ok(f) == [fs |-> f, err |-> "ok"]

Raise(f, e) == [fs |-> f, err |-> e]

\* os.mkdir(p)
mkdir(f, p) ==
    IF Exists(f, p) THEN Raise(f, "FileExistsError")
    ELSE IF KindOf(f, Parent(p)) = "none" THEN Raise(f, "FileNotFoundError")
    ELSE IF KindOf(f, Parent(p)) # "dir" THEN Raise(f, "NotADirectoryError")
    ELSE Ok(Graft(f, p, <<>> :> DirNode))

\* os.remove(p), os.unlink(p)
remove(f, p) ==
    IF KindOf(f, p) = "none" THEN Raise(f, "FileNotFoundError")
    ELSE IF KindOf(f, p) = "dir" THEN Raise(f, "IsADirectoryError")
    ELSE Ok(RemoveTree(f, p))

\* rmtree taking a symbolic link away as a link instead of refusing it.
rmtree_unlinking(f, p) ==
    IF KindOf(f, p) = "none" THEN Raise(f, "FileNotFoundError")
    ELSE IF KindOf(f, p) = "file" THEN Raise(f, "NotADirectoryError")
    ELSE Ok(RemoveTree(f, p))

\* shutil.rmtree(p): refuses a missing path, a symbolic link and a non-directory
rmtree(f, p) ==
    IF KindOf(f, p) = "none" THEN Raise(f, "FileNotFoundError")
    ELSE IF KindOf(f, p) = "link" THEN Raise(f, "OSError")
    ELSE IF KindOf(f, p) # "dir" THEN Raise(f, "NotADirectoryError")
    ELSE Ok(RemoveTree(f, p))

\* shutil.copytree(src, dst, symlinks=True) of a directory of the tree
copytree(f, src, dst) ==
    IF KindOf(f, src) = "none" THEN Raise(f, "FileNotFoundError")
    ELSE IF KindOf(f, src) # "dir" THEN Raise(f, "NotADirectoryError")
    ELSE IF Exists(f, dst) THEN Raise(f, "FileExistsError")
    ELSE IF KindOf(f, Parent(dst)) = "none" THEN Raise(f, "FileNotFoundError")
    ELSE Ok(Graft(f, dst, CopyOf(Subtree(f, src), dst)))

\* os.rename(src, dst)
rename(f, src, dst) ==
    IF KindOf(f, src) = "none" THEN Raise(f, "FileNotFoundError")
    ELSE IF KindOf(f, Parent(dst)) = "none" THEN Raise(f, "FileNotFoundError")
    ELSE IF KindOf(f, Parent(dst)) # "dir" THEN Raise(f, "NotADirectoryError")
    ELSE IF KindOf(f, dst) = "dir" /\ KindOf(f, src) # "dir"
         THEN Raise(f, "IsADirectoryError")
    ELSE IF KindOf(f, dst) = "dir" /\ Listdir(f, dst) # {}
         THEN Raise(f, "OSError")
    ELSE IF KindOf(f, dst) \in {"file", "link"} /\ KindOf(f, src) = "dir"
         THEN Raise(f, "NotADirectoryError")
    ELSE Ok(Graft(RemoveTree(RemoveTree(f, src), dst), dst, Subtree(f, src)))

\* shutil.move(src, dst): into dst when dst is a directory, never over an
\* entry that is already there
move(f, src, dst) ==
    IF KindOf(f, dst) = "dir"
    THEN IF Exists(f, Append(dst, Basename(src)))
         THEN Raise(f, "shutil.Error")
         ELSE rename(f, src, Append(dst, Basename(src)))
    ELSE rename(f, src, dst)

\* os.symlink(t, p)
symlink(f, t, p) ==
    IF Exists(f, p) THEN Raise(f, "FileExistsError")
    ELSE IF KindOf(f, Parent(p)) # "dir" THEN Raise(f, "FileNotFoundError")
    ELSE Ok(Graft(f, p, <<>> :> LinkNode(t.abs, t.comps)))

(***************************************************************************)
(* Path resolution by the operating system.  The tree lives at RootDir on  *)
(* the build host, so an absolute symlink target followed by a system call *)
(* resolves against the host's root, not against the tree's.  Of the host  *)
(* outside the tree the model knows which directories exist (h).           *)
(***************************************************************************)
RootDir == <<"rootfs">>

\* What is at the physical absolute path op.
PhysKind(f, h, op) ==
    IF op = <<>> THEN "dir"
    ELSE IF IsPrefix(RootDir, op)
         THEN KindOf(f, SubSeq(op, Len(RootDir) + 1, Len(op)))
         ELSE IF \E d \in h : IsPrefix(op, d) THEN "dir" ELSE "none"

ResolveFail == [ok |-> FALSE, path |-> <<>>]

RECURSIVE Resolve(_, _, _, _, _)
\* Walk the components rest from the directory cur, following every symlink.
Resolve(f, h, cur, rest, fuel) ==
    IF rest = <<>> THEN [ok |-> TRUE, path |-> cur]
    ELSE LET c    == Head(rest)
             more == Tail(rest)
             nxt  == Append(cur, c)
             k    == PhysKind(f, h, nxt)
         IN  IF c = "." THEN Resolve(f, h, cur, more, fuel)
             ELSE IF c = ".."
                  THEN Resolve(f, h, IF cur = <<>> THEN <<>> ELSE Parent(cur), more, fuel)
             ELSE IF k = "dir" THEN Resolve(f, h, nxt, more, fuel)
             ELSE IF k = "link"
                  THEN IF fuel = 0 THEN ResolveFail
                       ELSE LET t == f[SubSeq(nxt, Len(RootDir) + 1, Len(nxt))].target
                            IN  Resolve(f, h, IF t.abs THEN <<>> ELSE cur,
                                        t.comps \o more, fuel - 1)
             ELSE IF more = <<>> THEN [ok |-> TRUE, path |-> nxt]
             ELSE ResolveFail

\* stat(op).kind: "none" when op does not resolve to anything
StatKind(f, h, op) ==
    LET r == Resolve(f, h, <<>>, op, MaxFollow) IN
    IF r.ok THEN PhysKind(f, h, r.path) ELSE "none"

\* os.path.isfile, os.path.isdir
isfile(f, h, op) == StatKind(f, h, op) = "file"

isdir(f, h, op) == StatKind(f, h, op) = "dir"

\* The physical path of op with its last component not followed (lstat).
LPath(f, h, op) ==
    LET r == Resolve(f, h, <<>>, Parent(op), MaxFollow) IN
    IF r.ok /\ PhysKind(f, h, r.path) = "dir"
    THEN [ok |-> TRUE, path |-> Append(r.path, Basename(op))]
    ELSE ResolveFail

\* A physical path as a path of the tree.
InTree(op) == SubSeq(op, Len(RootDir) + 1, Len(op))

(***************************************************************************)
(* Bootstrap.setup_boot                                                    *)
(***************************************************************************)
BootDir == <<"boot">>

TargetDir == <<"usr", "lib", "modules">>

\* Python's None for a name not yet seen.
None == ""

\* One iteration of the loop over os.listdir(bootdir).
boot_item(st, item) ==
    LET cs == Chars(item) IN
    IF StartsWith(cs, <<"v", "m", "l", "i", "n", "u", "z">>)
    THEN IF st.vmlinuz # None
         THEN [st EXCEPT !.err = "AssertionError"]
         ELSE LET parts == SplitOnce(cs, "-") IN
              IF Len(parts) # 2
              THEN [st EXCEPT !.vmlinuz = item, !.err = "ValueError"]
              ELSE [st EXCEPT !.vmlinuz = item, !.version = NameOf(parts[2])]
    ELSE IF \/ StartsWith(cs, <<"i", "n", "i", "t", "r", "d", ".", "i", "m", "g">>)
            \/ StartsWith(cs, <<"i", "n", "i", "t", "r", "a", "m", "f", "s">>)
    THEN IF st.initrd # None
         THEN [st EXCEPT !.err = "AssertionError"]
         ELSE [st EXCEPT !.initrd = item]
    ELSE IF StartsWith(cs, <<"d", "t", "b", "s">>)
    THEN IF st.dtbs # <<>>
         THEN [st EXCEPT !.err = "AssertionError"]
         ELSE [st EXCEPT !.dtbs = Append(BootDir, item)]
    ELSE IF StartsWith(cs, <<"S", "y", "s", "t", "e", "m", ".", "m", "a", "p">>)
    THEN \* a failed move is logged and the loop goes on
         [st EXCEPT !.fs = move(st.fs, Append(BootDir, item), TargetDir).fs]
    ELSE st

RECURSIVE boot_scan(_, _)
\* The loop over os.listdir(bootdir), in the order the directory lists.
boot_scan(st, items) ==
    IF items = <<>> \/ st.err # "ok" THEN st
    ELSE boot_scan(boot_item(st, Head(items)), Tail(items))

\* The renames of the kernel image and, when there is one, of the initrd;
\* a failed rename ends in sys.exit(1).
boot_renames(st) ==
    LET k == rename(st.fs, Append(BootDir, st.vmlinuz),
                    TargetDir \o <<st.version, "vmlinuz">>)
    IN  IF k.err # "ok" THEN Raise(k.fs, "SystemExit")
        ELSE IF st.initrd = None THEN Ok(k.fs)
        ELSE LET i == rename(k.fs, Append(BootDir, st.initrd),
                             TargetDir \o <<st.version, "initramfs.img">>)
             IN  IF i.err # "ok" THEN Raise(i.fs, "SystemExit") ELSE Ok(i.fs)

\* boot_relocate with a boot directory without kernel image passed over
\* instead of asserted against.
boot_relocate_kernel_optional(st) ==
    IF st.err # "ok" THEN Raise(st.fs, st.err)
    ELSE IF st.vmlinuz = None THEN Ok(st.fs)
    ELSE boot_renames(st)

\* What follows the scan: assert vmlinuz is not None, then the renames.
boot_relocate(st) ==
    IF st.err # "ok" THEN Raise(st.fs, st.err)
    ELSE IF st.vmlinuz = None THEN Raise(st.fs, "AssertionError")
    ELSE boot_renames(st)

\* setup_boot(rootdir, rootdir/boot, rootdir/usr/lib/modules); items is
\* os.listdir(bootdir) in the order the directory lists its entries.
setup_boot(f, items) ==
    IF KindOf(f, BootDir) # "dir" THEN Raise(f, "FileNotFoundError")
    ELSE boot_relocate(boot_scan(
            [fs |-> mkdir(f, TargetDir).fs, vmlinuz |-> None, initrd |-> None,
             dtbs |-> <<>>, version |-> None, err |-> "ok"],
            items))

(***************************************************************************)
(* Bootstrap.create_tmpfile_dir                                            *)
(***************************************************************************)
excluded_packages ==
    {"ucf", "base-files", "systemd", "init-system-helpers", "dbus",
     "policykit-1", "polkitd", "debconf"}

ConfPath == <<"usr", "lib", "tmpfiles.d", "ostree-integration-autovar.conf">>

\* The paths for which the loop at the end writes no line.
BasePaths ==
    {<<"var">>, <<"var", "lock">>, <<"var", "cache">>, <<"var", "spool">>,
     <<"var", "log">>, <<"var", "lib">>}

\* "# Auto-genernated by apt-ostree"
HeaderLine == [type |-> "#", path |-> <<>>, arg |-> <<>>]

\* "L <d> - - - - ../../usr/rootdirs<d>"
RuleLine(d) == [type |-> "L", path |-> d, arg |-> <<"..", "..", "usr", "rootdirs">> \o d]

\* The files one package adds to dirs.
pkg_dirs(pkg) ==
    IF /\ \E i \in 1..Len(pkg.files) : pkg.files[i] = <<"var">>
       /\ pkg.name \notin excluded_packages
    THEN SelectSeq(pkg.files,
                   LAMBDA file : StartsWith(PathString(file), <<"/", "v", "a", "r">>))
    ELSE <<>>

RECURSIVE collect_dirs(_)
\* dirs after the loop over the package cache
collect_dirs(cache) ==
    IF cache = <<>> THEN <<>>
    ELSE pkg_dirs(Head(cache)) \o collect_dirs(Tail(cache))

\* rule_lines with a line for every collected path.
rule_lines_unfiltered(dirs) == [i \in 1..Len(dirs) |-> RuleLine(dirs[i])]

RECURSIVE rule_lines(_)
rule_lines(dirs) ==
    IF dirs = <<>> THEN <<>>
    ELSE (IF Head(dirs) \notin BasePaths THEN <<RuleLine(Head(dirs))>> ELSE <<>>)
         \o rule_lines(Tail(dirs))

\* create_tmpfile_dir(rootdir) with the package cache apt reports
create_tmpfile_dir(f, cache) ==
    LET dirs == collect_dirs(cache) IN
    IF Len(dirs) = 0 THEN Ok(f)
    ELSE LET u == IF Exists(f, ConfPath) THEN remove(f, ConfPath) ELSE Ok(f) IN
         IF u.err # "ok" THEN u
         ELSE IF KindOf(u.fs, Parent(ConfPath)) # "dir"
              THEN Raise(u.fs, "FileNotFoundError")
              ELSE Ok(Graft(u.fs, ConfPath,
                            <<>> :> [FileNode(ConfPath) EXCEPT
                                        !.data = <<HeaderLine>> \o rule_lines(dirs)]))

(***************************************************************************)
(* Bootstrap.sanitize_usr_symlinks                                         *)
(***************************************************************************)
UsrDir == RootDir \o <<"usr">>

\* The entries os.walk(usrdir) yields in its files lists: the entries of
\* the real directories under usr that stat does not find to be a directory.
WalkFiles(f, h) ==
    {p \in DOMAIN f :
        /\ Len(p) >= 2
        /\ \A n \in 1..(Len(p) - 1) : KindOf(f, SubSeq(p, 1, n)) = "dir"
        /\ p[1] = "usr"
        /\ StatKind(f, h, RootDir \o p) # "dir"}

\* os.link(target, p): a new name for what is at target (not followed)
oslink(f, h, target, p) ==
    LET lp == LPath(f, h, target) IN
    IF lp.ok /\ IsPrefix(RootDir, lp.path) /\ InTree(lp.path) \in DOMAIN f
    THEN Ok(Graft(f, p, <<>> :> f[InTree(lp.path)]))
    ELSE Raise(f, "OSError")

\* shutil.copytree(target, p, symlinks=True) of the directory target resolves to
copy_resolved(f, h, target, p) ==
    LET r == Resolve(f, h, <<>>, target, MaxFollow) IN
    IF IsPrefix(RootDir, r.path) /\ InTree(r.path) \in DOMAIN f
    THEN Ok(Graft(f, p, CopyOf(Subtree(f, InTree(r.path)), p)))
    ELSE Ok(Graft(f, p, <<>> :> DirNode))

\* The try block: remove the link, then link or copy what it pointed to.
materialise(f, h, target, p) ==
    LET d == remove(f, p) IN
    IF d.err # "ok" THEN Raise(d.fs, "SystemExit")
    ELSE LET m == IF isfile(d.fs, h, target) THEN oslink(d.fs, h, target, p)
                  ELSE IF isdir(d.fs, h, target) THEN copy_resolved(d.fs, h, target, p)
                  ELSE Ok(d.fs)
         IN  IF m.err # "ok" THEN Raise(m.fs, "SystemExit") ELSE m

\* sanitize_entry acting on every link that leaves usr, whatever its
\* top-level component.
sanitize_entry_any_toplevel(f, h, p) ==
    IF KindOf(f, p) # "link" THEN Ok(f)
    ELSE LET link   == f[p].target
             target == IF link.abs THEN RootDir \o link.comps
                       ELSE RootDir \o Parent(p) \o link.comps
         IN  IF commonpath(target, UsrDir) = UsrDir THEN Ok(f)
             ELSE materialise(f, h, target, p)

\* The body of the loop for the entry p of a files list.
sanitize_entry(f, h, p) ==
    IF KindOf(f, p) # "link" THEN Ok(f)
    ELSE LET link   == f[p].target
             base   == RootDir \o Parent(p)
             target == IF link.abs THEN RootDir \o link.comps
                       ELSE base \o link.comps
             rel    == relpath(target, RootDir)
         IN  IF commonpath(target, UsrDir) = UsrDir THEN Ok(f)
             ELSE IF get_toplevel(rel) # "var" THEN Ok(f)
             ELSE materialise(f, h, target, p)

RECURSIVE sanitize_loop(_, _, _)
sanitize_loop(r, h, entries) ==
    IF entries = <<>> \/ r.err # "ok" THEN r
    ELSE sanitize_loop(sanitize_entry(r.fs, h, Head(entries)), h, Tail(entries))

\* sanitize_usr_symlinks(rootdir); entries are the symlinks among the walk's
\* files in the order the walk yields them (the other files are skipped).
sanitize_usr_symlinks(f, h, entries) == sanitize_loop(Ok(f), h, entries)

(***************************************************************************)
(* Bootstrap.convert_to_ostree, after the sanitizer                        *)
(***************************************************************************)
CRUFT ==
    << <<"boot", "initrd.img">>, <<"boot", "vmlinuz">>, <<"initrd.img">>,
       <<"initrd.img.old">>, <<"vmlinuz">>, <<"vmlinuz.old">> >>

TOPLEVEL_LINKS ==
    << [l |-> <<"home">>,   t |-> [abs |-> FALSE, comps |-> <<"var", "home">>]],
       [l |-> <<"media">>,  t |-> [abs |-> FALSE, comps |-> <<"run", "media">>]],
       [l |-> <<"mnt">>,    t |-> [abs |-> FALSE, comps |-> <<"var", "mnt">>]],
       [l |-> <<"opt">>,    t |-> [abs |-> FALSE, comps |-> <<"var", "opt">>]],
       [l |-> <<"ostree">>, t |-> [abs |-> FALSE, comps |-> <<"sysroot", "ostree">>]],
       [l |-> <<"root">>,   t |-> [abs |-> FALSE, comps |-> <<"var", "roothome">>]],
       [l |-> <<"srv">>,    t |-> [abs |-> FALSE, comps |-> <<"var", "srv">>]],
       [l |-> <<"usr", "local">>,
        t |-> [abs |-> FALSE, comps |-> <<"..", "var", "usrlocal">>]] >>

\* relocate_var with var emptied and nothing copied.
relocate_var_without_copy(f) ==
    LET a == mkdir(f, <<"usr", "rootdirs">>) IN
    IF a.err # "ok" THEN a
    ELSE LET c == rmtree(a.fs, <<"var">>) IN
         IF c.err # "ok" THEN c ELSE mkdir(c.fs, <<"var">>)

\* Moving /var to /usr/rootdirs: mkdir, copytree, rmtree, mkdir.
relocate_var(f) ==
    LET a == mkdir(f, <<"usr", "rootdirs">>) IN
    IF a.err # "ok" THEN a
    ELSE LET b == copytree(a.fs, <<"var">>, <<"usr", "rootdirs", "var">>) IN
         IF b.err # "ok" THEN b
         ELSE LET c == rmtree(b.fs, <<"var">>) IN
              IF c.err # "ok" THEN c ELSE mkdir(c.fs, <<"var">>)

RECURSIVE remove_cruft_loop(_, _)
remove_cruft_loop(f, cs) ==
    IF cs = <<>> THEN f
    ELSE remove_cruft_loop(remove(f, Head(cs)).fs, Tail(cs))

\* Removing unnecessary files: every OSError is passed over.
remove_cruft(f) == Ok(remove_cruft_loop(f, CRUFT))

\* move_etc with etc copied and left where it was.
move_etc_keeping_source(f) == copytree(f, <<"etc">>, <<"usr", "etc">>)

\* Moving /etc to /usr/etc.
move_etc(f) == move(f, <<"etc">>, <<"usr">>)

\* Path.mkdir(parents=True, exist_ok=True) of a top-level name
mkdir_exist_ok(f, h, p) ==
    IF Exists(f, p)
    THEN IF isdir(f, h, RootDir \o p) THEN Ok(f) ELSE Raise(f, "FileExistsError")
    ELSE mkdir(f, p)

\* create_mountpoints with the ostree placeholder alone.
create_mountpoints_ostree_only(f, h) == Ok(mkdir_exist_ok(f, h, <<"ostree">>).fs)

\* Setting up /ostree and /sysroot: one try block, OSError passed over.
create_mountpoints(f, h) ==
    LET a == mkdir_exist_ok(f, h, <<"ostree">>) IN
    IF a.err # "ok" THEN Ok(a.fs)
    ELSE Ok(mkdir_exist_ok(a.fs, h, <<"sysroot">>).fs)

RECURSIVE toplevel_loop(_, _)
toplevel_loop(f, links) ==
    IF links = <<>> THEN Ok(f)
    ELSE LET d == rmtree(f, Head(links).l) IN
         IF d.err # "ok" THEN d
         ELSE LET s == symlink(d.fs, Head(links).t, Head(links).l) IN
              IF s.err # "ok" THEN s ELSE toplevel_loop(s.fs, Tail(links))

\* Setting up symlinks: for l, t in TOPLEVEL_LINKS.items()
toplevel_links(f) == toplevel_loop(f, TOPLEVEL_LINKS)

(***************************************************************************)
(* Bootstrap.create_ostree: the stages in the order the code runs them.    *)
(***************************************************************************)
\* convert_to_ostree with var relocated before the sanitizer runs.
ConvertToOstreeVarFirst ==
    <<"relocate_var", "sanitize_usr_symlinks", "remove_cruft", "move_etc",
      "create_mountpoints", "toplevel_links">>

\* The steps of convert_to_ostree.
ConvertToOstree ==
    <<"sanitize_usr_symlinks", "relocate_var", "remove_cruft", "move_etc",
      "create_mountpoints", "toplevel_links">>

\* create_ostree with the conversion called before the boot setup and the
\* tmpfiles rules.
CreateOstreeConvertFirst == ConvertToOstree \o <<"setup_boot", "create_tmpfile_dir">>

\* The calls of create_ostree.
CreateOstree == <<"setup_boot", "create_tmpfile_dir">> \o ConvertToOstree

\* The stage that follows stage s, "done" after the last one.
NextStage(s) ==
    LET i == CHOOSE k \in 1..Len(CreateOstree) : CreateOstree[k] = s IN
    IF i = Len(CreateOstree) THEN "done" ELSE CreateOstree[i + 1]

\* apt.cache.Cache(rootdir=rootdir): the packages of the dpkg database that
\* the tree holds under var/lib/dpkg, none when the tree holds no database.
DpkgStatus == <<"var", "lib", "dpkg", "status">>

apt_cache(f, db) == IF KindOf(f, DpkgStatus) = "file" THEN db ELSE <<>>

(***************************************************************************)
(* Bootstrap.create_rootfs after mmdebstrap, and Compose.commit: the calls *)
(* of the commit collaborator.  What ostree_commit and                     *)
(* ostree_summary_update return is for the environment to decide.          *)
(***************************************************************************)
\* r.returncode == 0, r.returncode != 0
ReturnCodes == {"zero", "nonzero"}

\* ostree_commit called wherever create_ostree stands, not on its return.
commit_follows_any_stage(p) == p # "failed"

\* create_rootfs calls ostree_commit when create_ostree has returned.
commit_follows(p) == p = "done"

\* ostree_summary_update called whatever the commit returned.
summary_follows_any_code(r) == r \in ReturnCodes

\* The summary is updated in the else branch of "if r.returncode != 0".
summary_follows(r) == r = "zero"

\* Compose.commit before it is called.
ComposeIdle ==
    [pc |-> "idle", exists |-> FALSE, commits |-> 0, rc |-> "none", summaries |-> 0]

\* Compose.commit(rootfs) up to the check of rootfs.exists().
compose_enter(c, exists) ==
    [c EXCEPT !.exists = exists,
              !.pc = IF exists THEN "poststaging" ELSE "exit"]

\* self.deploy.poststaging(rootfs) returns or raises.
compose_poststaging(c, returns) ==
    [c EXCEPT !.pc = IF returns THEN "ostree_commit" ELSE "raised"]

\* r = self.ostree.ostree_commit(...); sys.exit(1) when it is not 0.
compose_commit(c, r) ==
    [c EXCEPT !.commits = @ + 1,
              !.rc = r,
              !.pc = IF r = "raised" THEN "raised"
                     ELSE IF r # "zero" THEN "exit"
                     ELSE "ostree_summary_update"]

\* r = self.ostree.ostree_summary_update(); sys.exit(1) when it is not 0.
compose_summary(c, r) ==
    [c EXCEPT !.summaries = @ + 1,
              !.pc = IF r = "raised" THEN "raised"
                     ELSE IF r # "zero" THEN "exit"
                     ELSE "returned"]

(***************************************************************************)
(* utils.remove_component_from_config.  The file is the sequence of its    *)
(* lines; a line is its key (what stands before the colon) and its words   *)
(* (line.split()[1:]).                                                     *)
(***************************************************************************)
\* line.startswith("Components:")
IsComponentsLine(line) == line.key = "Components"

\* component in components
Lists(line, component) == \E i \in 1..Len(line.words) : line.words[i] = component

\* components.remove(component): without its first occurrence
list_remove(words, component) ==
    LET i == CHOOSE k \in 1..Len(words) :
                 /\ words[k] = component
                 /\ \A j \in 1..(k - 1) : words[j] # component
    IN  SubSeq(words, 1, i - 1) \o SubSeq(words, i + 1, Len(words))

RECURSIVE updated_lines(_, _)
\* The loop over the lines: a Components line is appended, rewritten, only
\* when it lists the component; every other line is appended as it is.
updated_lines(lines, component) ==
    IF lines = <<>> THEN <<>>
    ELSE LET line == Head(lines) IN
         (IF IsComponentsLine(line)
          THEN IF Lists(line, component)
               THEN << [line EXCEPT !.words = list_remove(line.words, component)] >>
               ELSE <<>>
          ELSE <<line>>)
         \o updated_lines(Tail(lines), component)

\* component_found after the loop
component_found(lines, component) ==
    \E i \in 1..Len(lines) : IsComponentsLine(lines[i]) /\ Lists(lines[i], component)

\* remove_component_from_config(config_path, component): the file after the
\* call and the value returned
remove_component_from_config(file, component) ==
    IF ~file.exists THEN [file |-> file, ret |-> "False"]
    ELSE IF ~component_found(file.lines, component)
         THEN [file |-> file, ret |-> "False"]
         ELSE [file |-> [file EXCEPT !.lines = updated_lines(file.lines, component)],
               ret |-> "True"]

(***************************************************************************)
(* The input trees: a reference tree, as mmdebstrap leaves it for a system *)
(* with one kernel, and deviations from it.                                *)
(***************************************************************************)
Kernel == "vmlinuz-6.1.0-amd64"

Initrd == "initrd.img-6.1.0-amd64"

SysMap == "System.map-6.1.0-amd64"

Version == "6.1.0-amd64"

MappedNames == {TOPLEVEL_LINKS[i].l : i \in 1..Len(TOPLEVEL_LINKS)}

BaseDirs ==
    { <<"boot">>, <<"etc">>, <<"usr">>, <<"usr", "lib">>, TargetDir,
      Append(TargetDir, Version), <<"usr", "lib", "tmpfiles.d">>,
      <<"var">>, <<"var", "lib">>, <<"var", "lib", "apt">>,
      <<"var", "lib", "apt", "lists">>, <<"var", "lib", "dpkg">> }
    \cup MappedNames

BaseFiles ==
    { <<"boot", Kernel>>, <<"boot", Initrd>>, <<"etc", "hostname">>,
      <<"var", "lib", "apt", "lists", "x">>, DpkgStatus, <<"home", "u">> }

AptListsX == <<"var", "lib", "apt", "lists", "x">>

FeatureList ==
    << "kernel2", "noKernel", "cruftVmlinuz", "noInitrd", "sysmap", "dtbs", "config",
       "noVersionDir", "noModulesDir", "sysmapInTarget",
       "noTmpfilesDir", "staleConf",
       "absFile", "relFile", "absDir", "relDir", "dangling", "other", "internal",
       "varLink",
       "hostDir",
       "noHome", "noOpt", "noUsrLocal", "srvLink",
       "fooOwnsVar", "barDup", "excluded", "variant", "canonical",
       "owned", "usrEtc", "noOstree", "sysroot", "cruftDir",
       "optLink" >>

\* The sets of at most MaxFeatures deviations, each chosen once.
FeatureSets ==
    LET N == Len(FeatureList)
        picks == {c \in [1..MaxFeatures -> 0..N] :
                     \A i \in 1..(MaxFeatures - 1) :
                         c[i] = 0 \/ (c[i + 1] # 0 /\ c[i] > c[i + 1])}
    IN  {{FeatureList[c[i]] : i \in {k \in 1..MaxFeatures : c[k] # 0}} : c \in picks}

\* The paths a deviation takes out of the reference tree (with what is below).
Removed(F) ==
    {p \in { <<"boot", Kernel>>, <<"boot", Initrd>>, Append(TargetDir, Version),
             TargetDir, <<"usr", "lib", "tmpfiles.d">>, <<"home">>, <<"opt">>,
             <<"usr", "local">>, <<"srv">>, <<"ostree">> } :
        \/ p = <<"boot", Kernel>> /\ "noKernel" \in F
        \/ p = <<"boot", Initrd>> /\ "noInitrd" \in F
        \/ p = Append(TargetDir, Version) /\ "noVersionDir" \in F
        \/ p = TargetDir /\ "noModulesDir" \in F
        \/ p = <<"usr", "lib", "tmpfiles.d">> /\ "noTmpfilesDir" \in F
        \/ p = <<"home">> /\ "noHome" \in F
        \/ p = <<"opt">> /\ ("noOpt" \in F \/ "optLink" \in F)
        \/ p = <<"usr", "local">> /\ "noUsrLocal" \in F
        \/ p = <<"srv">> /\ "srvLink" \in F
        \/ p = <<"ostree">> /\ "noOstree" \in F}

AddedFiles(F) ==
    {p \in { <<"boot", "vmlinuz-5.10">>, <<"boot", "vmlinuz">>, <<"boot", SysMap>>,
             <<"boot", "config-6.1.0-amd64">>, Append(TargetDir, SysMap), ConfPath,
             <<"sysroot", "keep">> } :
        \/ p = <<"boot", "vmlinuz-5.10">> /\ "kernel2" \in F
        \/ p = <<"boot", "vmlinuz">> /\ "cruftVmlinuz" \in F
        \/ p = <<"boot", SysMap>> /\ "sysmap" \in F
        \/ p = <<"boot", "config-6.1.0-amd64">> /\ "config" \in F
        \/ p = Append(TargetDir, SysMap) /\ "sysmapInTarget" \in F
        \/ p = ConfPath /\ "staleConf" \in F
        \/ p = <<"sysroot", "keep">> /\ "sysroot" \in F}

\* A directory of apt's that belongs to the user _apt, not to root.
AptPartial == <<"var", "lib", "apt", "lists", "partial">>

AddedDirs(F) ==
    {p \in { <<"boot", "dtbs">>, AptPartial, <<"usr", "etc">>, <<"sysroot">>,
             <<"vmlinuz.old">> } :
        \/ p = <<"boot", "dtbs">> /\ "dtbs" \in F
        \/ p = AptPartial /\ "owned" \in F
        \/ p = <<"usr", "etc">> /\ "usrEtc" \in F
        \/ p = <<"sysroot">> /\ "sysroot" \in F
        \/ p = <<"vmlinuz.old">> /\ "cruftDir" \in F}

\* The symbolic links a deviation adds: the path and the target string.
AddedLinks(F) ==
    {x \in { [f |-> "absFile",  p |-> <<"usr", "lib", "a">>, t |-> LinkNode(TRUE, AptListsX)],
             [f |-> "relFile",  p |-> <<"usr", "lib", "b">>, t |-> LinkNode(FALSE, <<"..", "..">> \o AptListsX)],
             [f |-> "absDir",   p |-> <<"usr", "lib", "c">>, t |-> LinkNode(TRUE, <<"var", "lib", "apt">>)],
             [f |-> "relDir",   p |-> <<"usr", "lib", "d">>, t |-> LinkNode(FALSE, <<"..", "..", "var", "lib", "apt">>)],
             [f |-> "dangling", p |-> <<"usr", "lib", "e">>, t |-> LinkNode(TRUE, <<"var", "missing">>)],
             [f |-> "other",    p |-> <<"usr", "lib", "o">>, t |-> LinkNode(TRUE, <<"etc", "hostname">>)],
             [f |-> "internal", p |-> <<"usr", "lib", "i">>, t |-> LinkNode(FALSE, <<"..", "local">>)],
             [f |-> "varLink",  p |-> <<"var", "lib", "l">>, t |-> LinkNode(TRUE, AptListsX)],
             [f |-> "srvLink",  p |-> <<"srv">>, t |-> LinkNode(FALSE, <<"var", "srv">>)],
             [f |-> "optLink",  p |-> <<"opt">>, t |-> LinkNode(FALSE, <<"usr", "lib">>)] } :
        x.f \in F}

\* The line of a configuration file left by an earlier build.
StaleLine == RuleLine(<<"var", "lib", "old">>)

\* The tree of the deviations F.
InputTree(F) ==
    LET dirs  == BaseDirs \cup AddedDirs(F)
        files == BaseFiles \cup AddedFiles(F)
        links == AddedLinks(F)
        paths == {p \in dirs \cup files \cup {x.p : x \in links} :
                     /\ \A r \in Removed(F) : ~IsPrefix(r, p) \/ (p = r /\ \E x \in links : x.p = p)
                     /\ \A n \in 1..(Len(p) - 1) :
                           /\ SubSeq(p, 1, n) \in dirs
                           /\ \A r \in Removed(F) : ~IsPrefix(r, SubSeq(p, 1, n))}
    IN  [p \in paths |->
            IF \E x \in links : x.p = p THEN (CHOOSE x \in links : x.p = p).t
            ELSE IF p \in files
                 THEN IF p = ConfPath
                      THEN [FileNode(p) EXCEPT !.data = <<HeaderLine, StaleLine>>]
                      ELSE FileNode(p)
                 ELSE IF p = AptPartial
                      THEN [DirNode EXCEPT !.owner = "_apt", !.mode = "700"]
                      ELSE DirNode]

\* The package database of the deviations F, in the order apt iterates.
InputDb(F) ==
    (IF "barDup" \in F
     THEN << [name |-> "bar", files |-> << <<"var">>, <<"var", "lib", "foo", "data">> >>] >>
     ELSE <<>>)
    \o (IF "variant" \in F
        THEN << [name |-> "baz", files |-> << <<"var">>, <<"variant", "x">> >>] >>
        ELSE <<>>)
    \o << [name |-> "foo",
           files |-> IF "fooOwnsVar" \in F
                     THEN << <<"var">>, <<"var", "lib">>, <<"var", "lib", "foo", "data">> >>
                     ELSE << <<"var", "lib", "foo", "data">> >>] >>
    \o (IF "canonical" \in F
        THEN << [name |-> "qux", files |-> << <<"var">>, <<"var", "lib">>, <<"var", "cache">> >>] >>
        ELSE <<>>)
    \o (IF "excluded" \in F
        THEN << [name |-> "systemd", files |-> << <<"var">>, <<"var", "lib", "systemd">> >>] >>
        ELSE <<>>)

\* The directories of the build host that matter to a link of the tree.
InputHost(F) == IF "hostDir" \in F THEN {<<"var", "lib", "apt">>} ELSE {}

(***************************************************************************)
(* State.                                                                  *)
(***************************************************************************)
VARIABLES
    fs,      \* the root tree
    host,    \* the directories of the build host outside the tree
    db,      \* the dpkg database of the tree: who owns which path
    pc,      \* the stage create_ostree runs next, "done" or "failed"
    error,   \* the exception that ended the run, "none" so far
    done,    \* the stages that have completed in this run, in order
    stage,   \* the stage run last
    run,     \* which invocation of create_ostree on this tree this is
    input,   \* the tree as it was when this run began
    prev,    \* the tree as it was before the stage run last
    commits,    \* how often create_rootfs has called ostree_commit in this run
    rc,         \* what that ostree_commit returned, "none" before
    summaries,  \* how often create_rootfs has called ostree_summary_update
    committed,  \* the tree as it was handed to ostree_commit
    compose,    \* Compose.commit: where it stands and what it has called
    config,     \* the file conf/distributions
    config_prev,  \* that file before remove_component_from_config
    component,  \* the component remove_component_from_config was called with
    ret         \* what remove_component_from_config returned, "none" before

pvars == <<fs, host, db, pc, error, done, stage, run, input, prev>>

\* create_rootfs after create_ostree
rvars == <<commits, rc, summaries, committed>>

\* remove_component_from_config
cvars == <<config, config_prev, component, ret>>

vars == <<pvars, rvars, compose, cvars>>

\* No file conf/distributions.
NoConfig == [exists |-> FALSE, lines |-> <<>>]

\* The orders in which a directory may list the entries S.
Orders(S) ==
    {s \in [1..Cardinality(S) -> S] : \A i, j \in 1..Cardinality(S) : s[i] = s[j] => i = j}

Init ==
    \E F \in FeatureSets :
        /\ fs = InputTree(F)
        /\ host = InputHost(F)
        /\ db = InputDb(F)
        /\ pc = CreateOstree[1]
        /\ error = "none"
        /\ done = <<>>
        /\ stage = "none"
        /\ run = 1
        /\ input = fs
        /\ prev = fs
        /\ commits = 0
        /\ rc = "none"
        /\ summaries = 0
        /\ committed = fs
        /\ compose = ComposeIdle
        /\ config = NoConfig
        /\ config_prev = NoConfig
        /\ component = "none"
        /\ ret = "none"

\* Stage s ran with outcome r: the next stage follows, or the run is over.
Step(s, r) ==
    /\ fs' = r.fs
    /\ prev' = fs
    /\ stage' = s
    /\ IF r.err = "ok"
       THEN pc' = NextStage(s) /\ done' = Append(done, s) /\ error' = error
       ELSE pc' = "failed" /\ done' = done /\ error' = r.err
    /\ UNCHANGED <<host, db, run, input, rvars, compose, cvars>>

SetupBoot ==
    /\ pc = "setup_boot"
    /\ \E items \in Orders(Listdir(fs, BootDir)) :
           Step("setup_boot", setup_boot(fs, items))

CreateTmpfileDir ==
    /\ pc = "create_tmpfile_dir"
    /\ Step("create_tmpfile_dir", create_tmpfile_dir(fs, apt_cache(fs, db)))

SanitizeUsrSymlinks ==
    /\ pc = "sanitize_usr_symlinks"
    /\ \E entries \in Orders({p \in WalkFiles(fs, host) : KindOf(fs, p) = "link"}) :
           Step("sanitize_usr_symlinks", sanitize_usr_symlinks(fs, host, entries))

RelocateVar ==
    /\ pc = "relocate_var"
    /\ Step("relocate_var", relocate_var(fs))

RemoveCruft ==
    /\ pc = "remove_cruft"
    /\ Step("remove_cruft", remove_cruft(fs))

MoveEtc ==
    /\ pc = "move_etc"
    /\ Step("move_etc", move_etc(fs))

CreateMountpoints ==
    /\ pc = "create_mountpoints"
    /\ Step("create_mountpoints", create_mountpoints(fs, host))

ToplevelLinks ==
    /\ pc = "toplevel_links"
    /\ Step("toplevel_links", toplevel_links(fs))

\* create_ostree is invoked again on the tree a finished run left.
Rerun ==
    /\ pc = "done"
    /\ run < MaxRuns
    /\ run' = run + 1
    /\ pc' = CreateOstree[1]
    /\ error' = "none"
    /\ done' = <<>>
    /\ stage' = "none"
    /\ input' = fs
    /\ prev' = fs
    /\ commits' = 0
    /\ rc' = "none"
    /\ summaries' = 0
    /\ committed' = fs
    /\ UNCHANGED <<fs, host, db, compose, cvars>>

\* create_rootfs: r = self.ostree.ostree_commit(rootfs, ...), which returns
\* a code or raises.
OstreeCommit ==
    /\ commit_follows(pc)
    /\ commits = 0
    /\ commits' = 1
    /\ committed' = fs
    /\ \E r \in ReturnCodes \cup {"raised"} : rc' = r
    /\ UNCHANGED <<pvars, summaries, compose, cvars>>

\* create_rootfs: self.ostree.ostree_summary_update(self.state.repo)
SummaryUpdate ==
    /\ commits = 1
    /\ summaries = 0
    /\ summary_follows(rc)
    /\ summaries' = 1
    /\ UNCHANGED <<pvars, commits, rc, committed, compose, cvars>>

\* create_rootfs has ended: it has returned, or an exception or sys.exit
\* has ended it.
RootfsEnded ==
    \/ pc = "failed"
    \/ commits = 1 /\ rc # "zero"
    \/ summaries = 1

\* "apt-ostree compose commit" is run once the bootstrap command has ended.
ComposeEnter ==
    /\ RootfsEnded
    /\ compose.pc = "idle"
    /\ \E exists \in BOOLEAN : compose' = compose_enter(compose, exists)
    /\ UNCHANGED <<pvars, rvars, cvars>>

ComposePoststaging ==
    /\ compose.pc = "poststaging"
    /\ \E returns \in BOOLEAN : compose' = compose_poststaging(compose, returns)
    /\ UNCHANGED <<pvars, rvars, cvars>>

ComposeOstreeCommit ==
    /\ compose.pc = "ostree_commit"
    /\ \E r \in ReturnCodes \cup {"raised"} : compose' = compose_commit(compose, r)
    /\ UNCHANGED <<pvars, rvars, cvars>>

ComposeSummaryUpdate ==
    /\ compose.pc = "ostree_summary_update"
    /\ \E r \in ReturnCodes \cup {"raised"} : compose' = compose_summary(compose, r)
    /\ UNCHANGED <<pvars, rvars, cvars>>

Next ==
    \/ SetupBoot
    \/ CreateTmpfileDir
    \/ SanitizeUsrSymlinks
    \/ RelocateVar
    \/ RemoveCruft
    \/ MoveEtc
    \/ CreateMountpoints
    \/ ToplevelLinks
    \/ Rerun
    \/ OstreeCommit
    \/ SummaryUpdate
    \/ ComposeEnter
    \/ ComposePoststaging
    \/ ComposeOstreeCommit
    \/ ComposeSummaryUpdate

Spec == Init /\ [][Next]_vars

(***************************************************************************)
(* The files remove_component_from_config is called on: stanzas of a       *)
(* Codename line and Components lines, separated by blank lines.           *)
(***************************************************************************)
\* The component names.
Components == {"main", "contrib", "non-free"}

\* The lines a file is made of.
ConfigLines ==
    { [key |-> "Codename", words |-> <<"bullseye">>],
      [key |-> "Codename", words |-> <<"bookworm">>],
      [key |-> "", words |-> <<>>],
      [key |-> "Components", words |-> <<"main">>],
      [key |-> "Components", words |-> <<"main", "contrib">>],
      [key |-> "Components", words |-> <<"contrib", "main", "contrib">>],
      [key |-> "Components", words |-> <<>>] }

\* The files: none, or one of at most MaxLines lines.
Configs ==
    {NoConfig} \cup
    UNION {{[exists |-> TRUE, lines |-> l] : l \in [1..n -> ConfigLines]} : n \in 0..MaxLines}

InitConfig ==
    /\ fs = InputTree({})
    /\ host = InputHost({})
    /\ db = InputDb({})
    /\ pc = CreateOstree[1]
    /\ error = "none"
    /\ done = <<>>
    /\ stage = "none"
    /\ run = 1
    /\ input = fs
    /\ prev = fs
    /\ commits = 0
    /\ rc = "none"
    /\ summaries = 0
    /\ committed = fs
    /\ compose = ComposeIdle
    /\ config \in Configs
    /\ config_prev = config
    /\ component = "none"
    /\ ret = "none"

\* Repo.remove: remove_component_from_config(conf/distributions, component)
RemoveComponent ==
    /\ ret = "none"
    /\ \E c \in Components :
          LET r == remove_component_from_config(config, c) IN
          /\ config' = r.file
          /\ ret' = r.ret
          /\ component' = c
          /\ config_prev' = config
    /\ UNCHANGED <<pvars, rvars, compose>>

NextConfig == RemoveComponent

SpecConfig == InitConfig /\ [][NextConfig]_vars

(***************************************************************************)
(* Properties.                                                             *)
(***************************************************************************)
Terminated == pc \in {"done", "failed"}

\* The lines of the generated configuration file, <<>> when there is none.
ConfLines(f) == IF KindOf(f, ConfPath) = "file" THEN f[ConfPath].data ELSE <<>>

\* The boot directory entries of f of the kernel-image class.
KernelEntries(f) ==
    {n \in Listdir(f, BootDir) : StartsWith(Chars(n), <<"v", "m", "l", "i", "n", "u", "z">>)}

\* The boot directory entries of f of the initrd class.
InitrdEntries(f) ==
    {n \in Listdir(f, BootDir) :
        \/ StartsWith(Chars(n), <<"i", "n", "i", "t", "r", "d", ".", "i", "m", "g">>)
        \/ StartsWith(Chars(n), <<"i", "n", "i", "t", "r", "a", "m", "f", "s">>)}

\* The top-level component, relative to the tree root, of the place the
\* symlink at p points to: the target taken from the tree root when it is
\* absolute and from the link's directory when it is relative, with ".."
\* applied; "" when that place is the tree root or outside the tree.
LinkTop(f, p) ==
    LET t == f[p].target
        n == normpath(IF t.abs THEN RootDir \o t.comps
                      ELSE RootDir \o Parent(p) \o t.comps)
    IN  IF IsPrefix(RootDir, n) /\ Len(n) > Len(RootDir)
        THEN n[Len(RootDir) + 1]
        ELSE ""

FooData == <<"var", "lib", "foo", "data">>

MappedAreLinks(f) ==
    \A i \in 1..Len(TOPLEVEL_LINKS) :
        /\ KindOf(f, TOPLEVEL_LINKS[i].l) = "link"
        /\ f[TOPLEVEL_LINKS[i].l].target = TOPLEVEL_LINKS[i].t

----------------------------------------------------------------------------
\* The input of the end-to-end example: kernel and initrd 6.1.0-amd64 in
\* boot, var/lib/apt/lists/x, etc/hostname, the eight mapped directories,
\* and the ownership index {foo: [/var/lib/foo/data]}.
EndToEndInput ==
    /\ run = 1
    /\ KindOf(input, <<"boot", Kernel>>) = "file"
    /\ KindOf(input, <<"boot", Initrd>>) = "file"
    /\ KindOf(input, AptListsX) = "file"
    /\ KindOf(input, <<"etc", "hostname">>) = "file"
    /\ \A m \in MappedNames : KindOf(input, m) = "dir"
    /\ db = << [name |-> "foo", files |-> <<FooData>>] >>

EndToEndResult ==
    /\ pc = "done"
    /\ KindOf(fs, TargetDir \o <<Version, "vmlinuz">>) = "file"
    /\ KindOf(fs, TargetDir \o <<Version, "initramfs.img">>) = "file"
    /\ KindOf(fs, <<"usr", "etc", "hostname">>) = "file"
    /\ KindOf(fs, <<"usr", "rootdirs">> \o AptListsX) = "file"
    /\ KindOf(fs, <<"var">>) = "dir"
    /\ Listdir(fs, <<"var">>) = {}
    /\ \E i \in 1..Len(ConfLines(fs)) : ConfLines(fs)[i] = RuleLine(FooData)
    /\ \A m \in MappedNames : KindOf(fs, m) = "link"

\* C1: on the end-to-end input the pipeline ends in Done with the kernel
\* and the initrd under usr/lib/modules/6.1.0-amd64, usr/etc/hostname,
\* usr/rootdirs/var/lib/apt/lists/x, an empty var, the tmpfiles rule for
\* /var/lib/foo/data and the eight mapped names as symlinks.
C1_EndToEnd == (EndToEndInput /\ Terminated) => EndToEndResult

----------------------------------------------------------------------------
\* The order of the stages as the specification's state machine lists them.
StateMachineOrder ==
    <<"relocate_var", "remove_cruft", "move_etc", "create_mountpoints",
      "sanitize_usr_symlinks", "toplevel_links", "setup_boot", "create_tmpfile_dir">>

\* The order in which create_ostree and convert_to_ostree run them.
CodeOrder ==
    <<"setup_boot", "create_tmpfile_dir", "sanitize_usr_symlinks", "relocate_var",
      "remove_cruft", "move_etc", "create_mountpoints", "toplevel_links">>

\* C2 (as stated): a run that reaches Done has run the stages once each in
\* the order var relocation, cruft removal, etc relocation, mount points,
\* symlink sanitization, top-level symlinks, boot setup, tmpfiles rules.
C2_StateMachineOrder == pc = "done" => done = StateMachineOrder

\* C2 (amended): the stages complete once each, none retried or skipped,
\* in the order boot setup, tmpfiles rules, symlink sanitization, var
\* relocation, cruft removal, etc relocation, mount points, top-level
\* symlinks: at any moment the completed stages are a prefix of that order,
\* and all of it when the run reaches Done.
C2_CodeOrder ==
    /\ IsPrefix(done, CodeOrder)
    /\ pc = "done" => done = CodeOrder

C2_Witness == pc = "done" /\ Len(done) = Len(CodeOrder) /\ stage = "toplevel_links"

----------------------------------------------------------------------------
VarTouched == Subtree(fs, <<"var">>) # Subtree(input, <<"var">>)

\* C3: var is modified only after the sanitizer has completed, and the
\* sanitizer runs on, and leaves, the var content of the input tree.
C3_SanitizeBeforeVar ==
    /\ VarTouched => \E i \in 1..Len(done) : done[i] = "sanitize_usr_symlinks"
    /\ stage = "sanitize_usr_symlinks" =>
           /\ Subtree(prev, <<"var">>) = Subtree(input, <<"var">>)
           /\ Subtree(fs, <<"var">>) = Subtree(input, <<"var">>)

\* var has been relocated after the sanitizer replaced the link usr/lib/a
\* by a hard link to the file it pointed to in the input's var.
C3_Witness ==
    /\ VarTouched
    /\ stage = "relocate_var"
    /\ KindOf(input, <<"usr", "lib", "a">>) = "link"
    /\ KindOf(fs, <<"usr", "lib", "a">>) = "file"
    /\ fs[<<"usr", "lib", "a">>].ino = input[AptListsX].ino

----------------------------------------------------------------------------
\* C4: once the sanitizer has returned, no symlink under usr points to a
\* place whose top-level component is var.
C4_NoLinkIntoVar ==
    (stage = "sanitize_usr_symlinks" /\ pc # "failed") =>
        \A p \in DOMAIN fs :
            (p[1] = "usr" /\ fs[p].kind = "link") => LinkTop(fs, p) # "var"

----------------------------------------------------------------------------
\* C5: with exactly one kernel image vmlinuz-<version> and one initrd in
\* the boot directory, setup_boot leaves <target>/<version>/vmlinuz and
\* <target>/<version>/initramfs.img and neither file under its old name.
C5_BootRelocated ==
    (/\ stage = "setup_boot"
     /\ run = 1
     /\ Cardinality(KernelEntries(prev)) = 1
     /\ Cardinality(InitrdEntries(prev)) = 1
     /\ \A k \in KernelEntries(prev) : Len(SplitOnce(Chars(k), "-")) = 2)
    => \A k \in KernelEntries(prev) : \A i \in InitrdEntries(prev) :
          LET v == NameOf(SplitOnce(Chars(k), "-")[2]) IN
          /\ KindOf(fs, TargetDir \o <<v, "vmlinuz">>) = "file"
          /\ KindOf(fs, TargetDir \o <<v, "initramfs.img">>) = "file"
          /\ ~Exists(fs, Append(BootDir, k))
          /\ ~Exists(fs, Append(BootDir, i))

----------------------------------------------------------------------------
\* C6: with no kernel image or with two or more, setup_boot fails on an
\* invariant check and leaves the tree exactly as it was.
C6_NoMutationOnBadKernelCount ==
    (stage = "setup_boot" /\ Cardinality(KernelEntries(prev)) # 1) =>
        /\ pc = "failed"
        /\ error = "AssertionError"
        /\ fs = prev

----------------------------------------------------------------------------
\* C7: after the top-level symlink stage has run, each of the eight mapped
\* names is a symlink with exactly its mapped target, also when a mapped
\* name did not exist before.
C7_MappedNamesAreLinks == stage = "toplevel_links" => MappedAreLinks(fs)

----------------------------------------------------------------------------
\* The top-level component of an absolute path of the index is var.
UnderVar(file) == Len(file) >= 1 /\ file[1] = "var"

\* C8: when a non-excluded package owns /var/lib/foo/data and nothing
\* else, and no other non-excluded package owns a path under /var, the
\* configuration file is written with exactly the one rule line for
\* /var/lib/foo/data.
C8_OneRuleForFooData ==
    (/\ stage = "create_tmpfile_dir"
     /\ run = 1
     /\ KindOf(prev, Parent(ConfPath)) = "dir"
     /\ \E i \in 1..Len(db) :
           /\ db[i].name \notin excluded_packages
           /\ db[i].files = <<FooData>>
           /\ \A j \in 1..Len(db) :
                 (j # i /\ db[j].name \notin excluded_packages) =>
                     \A n \in 1..Len(db[j].files) : ~UnderVar(db[j].files[n]))
    => ConfLines(fs) = <<HeaderLine, RuleLine(FooData)>>

----------------------------------------------------------------------------
\* C9: when no collected path remains after the canonical base paths are
\* dropped, create_tmpfile_dir leaves no configuration file behind.
C9_NoConfWhenNothingRemains ==
    (/\ stage = "create_tmpfile_dir"
     /\ pc # "failed"
     /\ rule_lines(collect_dirs(apt_cache(prev, db))) = <<>>)
    => ~Exists(fs, ConfPath)

----------------------------------------------------------------------------
\* C10: a second run on a tree that has reached Done never reaches Done:
\* the first stage it attempts fails, and throughout it the eight mapped
\* names stay symlinks with their mapped targets and usr/rootdirs/var,
\* usr/etc and usr/lib/modules stay as the first run left them.
C10_RerunFailsFast ==
    run >= 2 =>
        /\ pc # "done"
        /\ stage # "none" => pc = "failed"
        /\ MappedAreLinks(fs)
        /\ Subtree(fs, <<"usr", "rootdirs", "var">>) = Subtree(input, <<"usr", "rootdirs", "var">>)
        /\ Subtree(fs, <<"usr", "etc">>) = Subtree(input, <<"usr", "etc">>)
        /\ Subtree(fs, TargetDir) = Subtree(input, TargetDir)

\* The second run has aborted on a tree holding the relocated content.
C10_Witness ==
    /\ run = 2
    /\ pc = "failed"
    /\ KindOf(fs, <<"usr", "rootdirs">> \o AptListsX) = "file"
    /\ KindOf(fs, <<"usr", "etc", "hostname">>) = "file"
    /\ KindOf(fs, TargetDir \o <<Version, "vmlinuz">>) = "file"

----------------------------------------------------------------------------
\* The boot directory entries of f of the symbol-map class.
SysMapEntries(f) ==
    {n \in Listdir(f, BootDir) :
        StartsWith(Chars(n), <<"S", "y", "s", "t", "e", "m", ".", "m", "a", "p">>)}

\* Creating the boot target directory of f fails, and not because the
\* directory is there already.
TargetDirCreationFails(f) == mkdir(f, TargetDir).err \notin {"ok", "FileExistsError"}

\* Moving some symbol-map file of f into the boot target directory fails.
SysMapMoveFails(f) ==
    \E n \in SysMapEntries(f) :
        move(mkdir(f, TargetDir).fs, Append(BootDir, n), TargetDir).err # "ok"

\* C11: when a filesystem operation of a stage fails, other than the
\* removal of a cruft file or the creation of a placeholder, the run ends
\* failed at that stage: this holds for the creation of the boot target
\* directory, the move of a symbol-map file, the relocation of var, the
\* move of etc and the construction of the top-level symlinks.
C11_AnyFailureIsTerminal ==
    /\ (stage = "setup_boot" /\ (TargetDirCreationFails(prev) \/ SysMapMoveFails(prev)))
           => pc = "failed"
    /\ (stage = "relocate_var" /\ relocate_var(prev).err # "ok") => pc = "failed"
    /\ (stage = "move_etc" /\ move_etc(prev).err # "ok") => pc = "failed"
    /\ (stage = "toplevel_links" /\ toplevel_links(prev).err # "ok") => pc = "failed"

----------------------------------------------------------------------------
RootdirsVar == <<"usr", "rootdirs", "var">>

\* C12: when the run reaches Done, var is a directory without entries and
\* every entry that was under var in the input tree is at the same
\* relative path under usr/rootdirs/var, with its kind and link target.
C12_VarRelocatedAtDone ==
    pc = "done" =>
        /\ KindOf(fs, <<"var">>) = "dir"
        /\ Listdir(fs, <<"var">>) = {}
        /\ \A s \in DOMAIN Subtree(input, <<"var">>) :
              /\ KindOf(fs, RootdirsVar \o s) = input[<<"var">> \o s].kind
              /\ fs[RootdirsVar \o s].target = input[<<"var">> \o s].target

\* Done is reached with a file, a directory and a symlink of the input's
\* var found under usr/rootdirs/var.
C12_Witness ==
    /\ pc = "done"
    /\ KindOf(input, AptListsX) = "file"
    /\ KindOf(input, <<"var", "lib", "l">>) = "link"
    /\ KindOf(fs, <<"usr", "rootdirs">> \o AptListsX) = "file"
    /\ KindOf(fs, <<"usr", "rootdirs", "var", "lib", "l">>) = "link"
    /\ KindOf(fs, <<"usr", "rootdirs", "var", "lib", "apt">>) = "dir"

----------------------------------------------------------------------------
\* C13: the relocation of var gives every entry under usr/rootdirs/var the
\* kind, link target, permission bits and owner of the entry of the
\* original var at the same relative path.
C13_RelocationPreservesOwnerAndMode ==
    (stage = "relocate_var" /\ pc # "failed") =>
        \A s \in DOMAIN Subtree(prev, <<"var">>) :
            /\ KindOf(fs, RootdirsVar \o s) = prev[<<"var">> \o s].kind
            /\ fs[RootdirsVar \o s].target = prev[<<"var">> \o s].target
            /\ fs[RootdirsVar \o s].mode = prev[<<"var">> \o s].mode
            /\ fs[RootdirsVar \o s].owner = prev[<<"var">> \o s].owner

----------------------------------------------------------------------------
UsrEtc == <<"usr", "etc">>

\* C14: when the run reaches Done there is no etc at the tree root and
\* every entry that was under etc in the input tree is at the same relative
\* path under usr/etc; when usr/etc is there already the move of etc ends
\* the run failed with the tree as it was, nothing merged or nested.
C14_EtcRelocated ==
    /\ pc = "done" =>
        /\ ~Exists(fs, <<"etc">>)
        /\ \A s \in DOMAIN Subtree(input, <<"etc">>) :
              /\ Exists(fs, UsrEtc \o s)
              /\ fs[UsrEtc \o s] = input[<<"etc">> \o s]
    /\ (stage = "move_etc" /\ Exists(prev, UsrEtc)) =>
        /\ pc = "failed"
        /\ fs = prev

\* Done is reached with the input's etc/hostname found at usr/etc/hostname.
C14_Witness ==
    /\ pc = "done"
    /\ stage = "toplevel_links"
    /\ KindOf(input, <<"etc", "hostname">>) = "file"
    /\ KindOf(fs, <<"usr", "etc", "hostname">>) = "file"
    /\ ~Exists(fs, <<"etc">>)

----------------------------------------------------------------------------
SysrootOstree == [abs |-> FALSE, comps |-> <<"sysroot", "ostree">>]

\* C15 (as stated): when the run reaches Done, ostree and sysroot are both
\* empty directories at the tree root.
C15_PlaceholdersAreEmptyDirs ==
    pc = "done" =>
        /\ KindOf(fs, <<"ostree">>) = "dir"
        /\ Listdir(fs, <<"ostree">>) = {}
        /\ KindOf(fs, <<"sysroot">>) = "dir"
        /\ Listdir(fs, <<"sysroot">>) = {}

\* C15 (amended): the placeholder step leaves ostree and sysroot as
\* directories, empty when they were not there before; when the run
\* reaches Done sysroot is what the placeholder step left (an empty
\* directory when the input tree had no sysroot) and ostree is a symlink
\* with target sysroot/ostree.
C15_SysrootDirOstreeLink ==
    /\ (/\ stage = "create_mountpoints"
        /\ KindOf(prev, <<"ostree">>) \in {"none", "dir"}
        /\ KindOf(prev, <<"sysroot">>) \in {"none", "dir"}) =>
        /\ KindOf(fs, <<"ostree">>) = "dir"
        /\ KindOf(fs, <<"sysroot">>) = "dir"
        /\ ~Exists(prev, <<"ostree">>) => Listdir(fs, <<"ostree">>) = {}
        /\ ~Exists(prev, <<"sysroot">>) => Listdir(fs, <<"sysroot">>) = {}
    /\ pc = "done" =>
        /\ KindOf(fs, <<"ostree">>) = "link"
        /\ fs[<<"ostree">>].target = SysrootOstree
        /\ KindOf(fs, <<"sysroot">>) = "dir"
        /\ ~Exists(input, <<"sysroot">>) => Listdir(fs, <<"sysroot">>) = {}

\* Done is reached from a tree that had neither ostree nor sysroot.
C15_Witness ==
    /\ pc = "done"
    /\ ~Exists(input, <<"ostree">>)
    /\ ~Exists(input, <<"sysroot">>)
    /\ KindOf(fs, <<"ostree">>) = "link"
    /\ KindOf(fs, <<"sysroot">>) = "dir"

----------------------------------------------------------------------------
\* C16: the configuration file never holds a rule line for a canonical
\* base directory, and each of its rule lines is
\* "L <path> - - - - ../../usr/rootdirs<path>" with one and the same path.
C16_RuleLinesWellFormed ==
    \A i \in 1..Len(ConfLines(fs)) :
        LET line == ConfLines(fs)[i] IN
        \/ line = HeaderLine
        \/ /\ line.type = "L"
           /\ line.path \notin BasePaths
           /\ line.arg = <<"..", "..", "usr", "rootdirs">> \o line.path

\* The file has been written from an index that holds canonical base
\* directories next to /var/lib/foo/data.
C16_Witness ==
    /\ stage = "create_tmpfile_dir"
    /\ fs # prev
    /\ \E i \in 1..Len(collect_dirs(apt_cache(prev, db))) :
           collect_dirs(apt_cache(prev, db))[i] \in BasePaths
    /\ \E i \in 1..Len(ConfLines(fs)) : ConfLines(fs)[i] = RuleLine(FooData)

----------------------------------------------------------------------------
\* The version a kernel image name spells after its first "-".
VersionOf(k) == NameOf(SplitOnce(Chars(k), "-")[2])

\* C17: with one kernel image vmlinuz-<version> (and at most one initrd) in
\* the boot directory, setup_boot succeeds and leaves the kernel image at
\* <target>/<version>/vmlinuz, whether or not <target>/<version> was there
\* before.
C17_VersionDirEnsured ==
    (/\ stage = "setup_boot"
     /\ run = 1
     /\ Cardinality(KernelEntries(prev)) = 1
     /\ Cardinality(InitrdEntries(prev)) <= 1
     /\ \A k \in KernelEntries(prev) : Len(SplitOnce(Chars(k), "-")) = 2)
    => \A k \in KernelEntries(prev) :
          /\ pc # "failed"
          /\ KindOf(fs, Append(TargetDir, VersionOf(k))) = "dir"
          /\ KindOf(fs, TargetDir \o <<VersionOf(k), "vmlinuz">>) = "file"

----------------------------------------------------------------------------
\* The symlinks of f under usr whose target has the top-level component var.
LinksIntoVar(f) ==
    {p \in DOMAIN f : p[1] = "usr" /\ f[p].kind = "link" /\ LinkTop(f, p) = "var"}

\* C18: a link into var that the sanitizer took away has real content in
\* its place when the sanitizer returns (a regular file or a directory),
\* or else the run has been aborted.
C18_ActedLinksMaterialised ==
    stage = "sanitize_usr_symlinks" =>
        \A p \in LinksIntoVar(prev) :
            (p \notin DOMAIN fs \/ fs[p] # prev[p]) =>
                \/ pc = "failed"
                \/ KindOf(fs, p) \in {"file", "dir"}

----------------------------------------------------------------------------
\* C19: a symlink that the sanitizer visits and leaves untouched does not
\* point, with its target resolved from the link's directory and ".."
\* applied, to a place whose top-level component is var.
C19_ClassifiedByResolvedTarget ==
    stage = "sanitize_usr_symlinks" =>
        \A p \in WalkFiles(prev, host) :
            (prev[p].kind = "link" /\ sanitize_entry(prev, host, p) = Ok(prev))
                => LinkTop(prev, p) # "var"

----------------------------------------------------------------------------
\* C20: the sanitizer changes nothing but the symlinks under usr that
\* point into var: every other entry is after it what it was before, and
\* what is new lies at or below such a link.
C20_SanitizerFrame ==
    stage = "sanitize_usr_symlinks" =>
        /\ \A p \in DOMAIN prev :
              (p \notin DOMAIN fs \/ fs[p] # prev[p]) => p \in LinksIntoVar(prev)
        /\ \A q \in DOMAIN fs :
              q \notin DOMAIN prev =>
                  \E n \in 1..Len(q) : SubSeq(q, 1, n) \in LinksIntoVar(prev)

\* The sanitizer has replaced the link usr/lib/a into var and has left the
\* link usr/lib/o into etc as it was.
C20_Witness ==
    /\ stage = "sanitize_usr_symlinks"
    /\ KindOf(prev, <<"usr", "lib", "a">>) = "link"
    /\ KindOf(fs, <<"usr", "lib", "a">>) = "file"
    /\ KindOf(prev, <<"usr", "lib", "o">>) = "link"
    /\ fs[<<"usr", "lib", "o">>] = prev[<<"usr", "lib", "o">>]

----------------------------------------------------------------------------
CruftPaths == {CRUFT[i] : i \in 1..Len(CRUFT)}

\* C21: of the failures of the cruft step only "already absent" is passed
\* over: when one of the six listed paths cannot be removed for another
\* reason (it is a directory) the run ends failed; and the cruft step
\* removes no path outside the list.
C21_OnlyAbsentCruftTolerated ==
    stage = "remove_cruft" =>
        /\ (\E c \in CruftPaths : remove(prev, c).err \notin {"ok", "FileNotFoundError"})
               => pc = "failed"
        /\ \A p \in DOMAIN prev : p \notin DOMAIN fs => p \in CruftPaths
        /\ \A p \in DOMAIN fs : p \in DOMAIN prev /\ fs[p] = prev[p]

----------------------------------------------------------------------------
\* C22: the tree that differs from the reference tree by the unversioned
\* entry boot/vmlinuz next to the one versioned kernel image passes the
\* kernel check and reaches Done.
C22_BootCruftRemovedFirst ==
    (/\ run = 1
     /\ Terminated
     /\ Exists(input, <<"boot", "vmlinuz">>)
     /\ RemoveTree(input, <<"boot", "vmlinuz">>) = InputTree({}))
    => pc = "done"

----------------------------------------------------------------------------
\* The boot directory entries of f of the device-tree class.
DtbsEntries(f) ==
    {n \in Listdir(f, BootDir) : StartsWith(Chars(n), <<"d", "t", "b", "s">>)}

\* The boot directory entries of f of no class.
OtherEntries(f) ==
    Listdir(f, BootDir)
        \ (KernelEntries(f) \cup InitrdEntries(f) \cup DtbsEntries(f) \cup SysMapEntries(f))

\* C23: after a successful setup_boot every symbol-map entry of the boot
\* directory is in <target> under its name and no longer in the boot
\* directory, and the device-tree entry and the entries of no class are
\* where and what they were.
C23_BootFrame ==
    (stage = "setup_boot" /\ pc # "failed") =>
        /\ \A n \in SysMapEntries(prev) :
              /\ KindOf(fs, Append(TargetDir, n)) = "file"
              /\ fs[Append(TargetDir, n)] = prev[Append(BootDir, n)]
              /\ ~Exists(fs, Append(BootDir, n))
        /\ \A n \in DtbsEntries(prev) \cup OtherEntries(prev) :
              Subtree(fs, Append(BootDir, n)) = Subtree(prev, Append(BootDir, n))

----------------------------------------------------------------------------
\* p lies at or below one of the eight mapped names.
UnderMapped(p) == \E m \in MappedNames : IsPrefix(m, p)

\* C24: when a mapped name is a symlink as the top-level symlink stage
\* comes to it, the stage ends the run failed; that entry and the mapped
\* entries after it are what they were, and so is everything that is not
\* at or below a mapped name, the place the link points to included.
C24_LinkNeverFollowed ==
    stage = "toplevel_links" =>
        \A i \in 1..Len(TOPLEVEL_LINKS) :
            KindOf(prev, TOPLEVEL_LINKS[i].l) = "link" =>
                /\ pc = "failed"
                /\ \A j \in i..Len(TOPLEVEL_LINKS) :
                      Subtree(fs, TOPLEVEL_LINKS[j].l) = Subtree(prev, TOPLEVEL_LINKS[j].l)
                /\ \A p \in DOMAIN prev :
                      ~UnderMapped(p) => (p \in DOMAIN fs /\ fs[p] = prev[p])

\* The stage has aborted at opt, a symlink to the directory usr/lib: the
\* names before it are the new symlinks, opt and the names after it are
\* untouched, and usr/lib still has its content.
C24_Witness ==
    /\ stage = "toplevel_links"
    /\ pc = "failed"
    /\ KindOf(prev, <<"opt">>) = "link"
    /\ prev[<<"opt">>].target = [abs |-> FALSE, comps |-> <<"usr", "lib">>]
    /\ KindOf(fs, <<"mnt">>) = "link"
    /\ KindOf(fs, <<"root">>) = "dir"
    /\ KindOf(fs, <<"usr", "lib", "tmpfiles.d">>) = "dir"

----------------------------------------------------------------------------
\* The collected paths of the tree before the stage that remain after the
\* canonical base paths are dropped.
RemainingPaths ==
    LET dirs == collect_dirs(apt_cache(prev, db)) IN
    {dirs[i] : i \in 1..Len(dirs)} \ BasePaths

\* C25: when paths remain, the written file is the header followed by
\* exactly one rule line for each distinct remaining path, and by nothing
\* of a file that was there before.
C25_OneLinePerDistinctPath ==
    (/\ stage = "create_tmpfile_dir"
     /\ pc # "failed"
     /\ RemainingPaths # {})
    => LET L == ConfLines(fs) IN
       /\ Len(L) = 1 + Cardinality(RemainingPaths)
       /\ L[1] = HeaderLine
       /\ {L[i] : i \in 2..Len(L)} = {RuleLine(d) : d \in RemainingPaths}

----------------------------------------------------------------------------
\* The packages of the cache that are not excluded and own the path d.
OwnersOf(cache, d) ==
    {i \in 1..Len(cache) :
        /\ cache[i].name \notin excluded_packages
        /\ \E n \in 1..Len(cache[i].files) : cache[i].files[n] = d}

\* C26: every rule line that create_tmpfile_dir writes is for a path whose
\* top-level component is var and that a package outside the exclusion
\* list owns.
C26_RulesOnlyForOwnedVarPaths ==
    (/\ stage = "create_tmpfile_dir"
     /\ pc # "failed"
     /\ collect_dirs(apt_cache(prev, db)) # <<>>)
    => \A i \in 1..Len(ConfLines(fs)) :
          LET line == ConfLines(fs)[i] IN
          line # HeaderLine =>
              /\ UnderVar(line.path)
              /\ OwnersOf(apt_cache(prev, db), line.path) # {}

----------------------------------------------------------------------------
\* C27: create_rootfs calls ostree_commit at most once in a run, only when
\* every stage has run, and the tree stays as it was handed to the commit.
C27_CommitAfterAllStages ==
    /\ commits <= 1
    /\ commits = 1 =>
          /\ pc = "done"
          /\ done = CodeOrder
          /\ fs = committed

\* A run has been committed, on the tree its eight stages have made of the
\* tree it began on, and the summary has been updated.
C27_Witness ==
    /\ commits = 1
    /\ summaries = 1
    /\ Len(done) = Len(CodeOrder)
    /\ committed # input
    /\ committed = fs

----------------------------------------------------------------------------
\* C28: create_rootfs and Compose.commit update the summary only after an
\* ostree_commit that returned zero, and Compose.commit calls ostree_commit
\* only when the rootfs directory exists.
C28_SummaryOnlyAfterSuccess ==
    /\ summaries > 0 => (commits = 1 /\ rc = "zero")
    /\ compose.summaries > 0 => (compose.commits = 1 /\ compose.rc = "zero")
    /\ compose.commits > 0 => compose.exists

\* Both commits returned a code that is not zero, and no summary followed.
C28_Witness ==
    /\ commits = 1
    /\ rc = "nonzero"
    /\ summaries = 0
    /\ compose.pc = "exit"
    /\ compose.commits = 1
    /\ compose.rc = "nonzero"
    /\ compose.summaries = 0

----------------------------------------------------------------------------
\* Line i of the file was a Components line that lists the component.
ListedAt(i) ==
    IsComponentsLine(config_prev.lines[i]) /\ Lists(config_prev.lines[i], component)

\* C29: when remove_component_from_config finds the component, every line
\* that is not a Components line listing it is where it was and as it was,
\* the Components lines of other stanzas included; when it finds the
\* component in no line, the file is as it was and False is returned.
C29_OnlyNamedComponentChanged ==
    ret # "none" =>
        IF config_prev.exists /\ (\E i \in 1..Len(config_prev.lines) : ListedAt(i))
        THEN /\ ret = "True"
             /\ config.exists
             /\ Len(config.lines) = Len(config_prev.lines)
             /\ \A i \in 1..Len(config_prev.lines) :
                   ~ListedAt(i) => config.lines[i] = config_prev.lines[i]
        ELSE /\ ret = "False"
             /\ config = config_prev

=============================================================================
